---- MODULE Spec2Model ----
(***************************************************************************)
(* A model of the power-allocation simulation: the spreadsheet loaders     *)
(* (src/data_loader.py, src/data/data_loader.py) and the allocation engine *)
(* (src/allocation_engine.py).                                             *)
(*                                                                         *)
(* Spreadsheet cells are a typed union, as pandas hands them to the code:  *)
(*   [k |-> "nan"]            a blank cell (NaN)                           *)
(*   [k |-> "int",   n |-> i] the integer i                                *)
(*   [k |-> "float", n |-> t] the float t/10 (one decimal digit is kept)   *)
(*   [k |-> "str",   s |-> c] the text c, a sequence of characters         *)
(* A Python string is a sequence of one-character strings, so that str(),  *)
(* strip(), replace('.', ''), isdigit(), int() and float() are computed    *)
(* character by character as Python computes them.  A Chinese character is *)
(* written as one symbol in pinyin ("zai", "xian" for the two of 在线).    *)
(* Numbers are counted in tenths: 50 is written 500, 5.5 is 55, so that a  *)
(* float with one decimal digit is an integer of the model.                *)
(***************************************************************************)
EXTENDS Integers, Sequences, FiniteSets, TLC

VARIABLES
    data,       \* AllocationEngine.data: the loaded tables and status map
    results,    \* AllocationEngine.results
    op,         \* the last AllocationEngine operation that ran
    ret,        \* what that operation returned
    tmpl,       \* the activation table of a load cycle: its (point, code) pairs
    parsed,     \* per layout, what DataLoader.load_point_status made of tmpl
    parsed2,    \* per layout, what load_data made of tmpl
    xls,        \* the table file of a schema load: its kind and its columns
    loaded,     \* what load_section_mapping / load_stations / load_loads made of xls
    fs,         \* the input directory: the state of each required and optional file
    cycle,      \* what DataLoader.load_all_data made of fs
    win,        \* the AllocationApp window: its data, results and widgets
    workers,    \* the SimulationWorker threads the window has started, in order
    reg,        \* the tables load_data reads: section rows, stations, users, statuses
    assigned    \* the section ids load_data assigned to each station and user

vars == <<data, results, op, ret, tmpl, parsed, parsed2, xls, loaded,
          fs, cycle, win, workers, reg, assigned>>

engineVars == <<data, results, op, ret>>
statusVars == <<tmpl, parsed, parsed2>>
schemaVars == <<xls, loaded>>
loadVars == <<fs, cycle>>
appVars == <<win, workers>>
sectionVars == <<reg, assigned>>

----------------------------------------------------------------------------
(* Cells and Python's conversions of them *)

NaN == [k |-> "nan"]
I(i) == [k |-> "int", n |-> i]
F(t) == [k |-> "float", n |-> t]
S(c) == [k |-> "str", s |-> c]

\* pd.notna / pd.isna
notna(c) == c.k # "nan"

DigitChars == <<"0", "1", "2", "3", "4", "5", "6", "7", "8", "9">>

IsDigitChar(c) == \E d \in 1..10 : DigitChars[d] = c

DigitValue(c) == (CHOOSE d \in 1..10 : DigitChars[d] = c) - 1

Abs(i) == IF i < 0 THEN -i ELSE i

RECURSIVE NatStr(_)
\* str() of a natural number
NatStr(i) == IF i < 10 THEN <<DigitChars[i + 1]>>
             ELSE NatStr(i \div 10) \o <<DigitChars[(i % 10) + 1]>>

\* str() of an int
IntStr(i) == IF i < 0 THEN <<"-">> \o NatStr(-i) ELSE NatStr(i)

\* str() of a float t/10: repr keeps the ".0" of an integral float
FloatStr(t) == (IF t < 0 THEN <<"-">> ELSE <<>>)
               \o NatStr(Abs(t) \div 10) \o <<".">> \o <<DigitChars[(Abs(t) % 10) + 1]>>

\* str(cell), also what Series.astype(str) gives cell by cell
Str(c) == CASE c.k = "nan" -> <<"n", "a", "n">>
            [] c.k = "int" -> IntStr(c.n)
            [] c.k = "float" -> FloatStr(c.n)
            [] c.k = "str" -> c.s

RECURSIVE LStrip(_)
LStrip(s) == IF s # <<>> /\ Head(s) = " " THEN LStrip(Tail(s)) ELSE s

RECURSIVE RStrip(_)
RStrip(s) == IF s # <<>> /\ s[Len(s)] = " " THEN RStrip(SubSeq(s, 1, Len(s) - 1)) ELSE s

\* str.strip()
Strip(s) == RStrip(LStrip(s))

\* str.replace('.', '')
RemoveDots(s) == SelectSeq(s, LAMBDA c : c # ".")

\* str.isdigit(): non-empty and every character a digit
isdigit(s) == s # <<>> /\ \A i \in 1..Len(s) : IsDigitChar(s[i])

RECURSIVE DigitsValue(_)
\* the number a string of digits writes
DigitsValue(s) == IF s = <<>> THEN 0
                  ELSE 10 * DigitsValue(SubSeq(s, 1, Len(s) - 1)) + DigitValue(s[Len(s)])

Raise == [raised |-> TRUE]
Ok(v) == [raised |-> FALSE, v |-> v]

DotCount(s) == Cardinality({i \in 1..Len(s) : s[i] = "."})
DotAt(s) == CHOOSE i \in 1..Len(s) : s[i] = "."

\* float() of an unsigned string: digits with at most one ".", at least one digit.
\* The value is in tenths; the strings of the model have at most one decimal digit.
UnsignedFloat(s) ==
    IF ~isdigit(RemoveDots(s)) \/ DotCount(s) > 1 THEN Raise
    ELSE IF DotCount(s) = 0 THEN Ok(10 * DigitsValue(s))
    ELSE LET ip == SubSeq(s, 1, DotAt(s) - 1)
             fp == SubSeq(s, DotAt(s) + 1, Len(s))
         IN Ok(10 * DigitsValue(ip) + (IF fp = <<>> THEN 0 ELSE DigitValue(fp[1])))

\* float(str): surrounding blanks and a sign are accepted, anything else raises ValueError
FloatOfStr(s) ==
    LET t == Strip(s)
    IN IF t = <<>> THEN Raise
       ELSE IF Head(t) = "-"
            THEN LET u == UnsignedFloat(Tail(t))
                 IN IF u.raised THEN Raise ELSE Ok(-u.v)
       ELSE IF Head(t) = "+" THEN UnsignedFloat(Tail(t))
       ELSE UnsignedFloat(t)

\* float(cell) of a cell that is not NaN
FloatOf(c) == CASE c.k = "int" -> Ok(10 * c.n)
                [] c.k = "float" -> Ok(c.n)
                [] c.k = "str" -> FloatOfStr(c.s)
                [] c.k = "nan" -> Raise

\* int(float): truncation toward zero, of a value in tenths
TruncTenths(t) == IF t >= 0 THEN t \div 10 ELSE -((-t) \div 10)

\* int(str): blanks, a sign and digits; "1.0" or a word raises ValueError
IntOfStr(s) ==
    LET t == Strip(s)
    IN IF t = <<>> THEN Raise
       ELSE IF Head(t) = "-"
            THEN IF isdigit(Tail(t)) THEN Ok(-DigitsValue(Tail(t))) ELSE Raise
       ELSE IF Head(t) = "+"
            THEN IF isdigit(Tail(t)) THEN Ok(DigitsValue(Tail(t))) ELSE Raise
       ELSE IF isdigit(t) THEN Ok(DigitsValue(t)) ELSE Raise

\* int(cell) of a cell that is not NaN
IntOf(c) == CASE c.k = "int" -> Ok(c.n)
              [] c.k = "float" -> Ok(TruncTenths(c.n))
              [] c.k = "str" -> IntOfStr(c.s)
              [] c.k = "nan" -> Raise

----------------------------------------------------------------------------
(* Python dicts (insertion ordered): a sequence of [key, val] with distinct keys *)

DictHas(d, key) == \E i \in 1..Len(d) : d[i].key = key

\* dict.get(key, default)
DictGet(d, key, default) ==
    IF DictHas(d, key) THEN d[CHOOSE i \in 1..Len(d) : d[i].key = key].val ELSE default

\* d[key] = val: an existing key keeps its place
DictSet(d, key, val) ==
    IF DictHas(d, key)
    THEN [i \in 1..Len(d) |-> IF d[i].key = key THEN [key |-> key, val |-> val] ELSE d[i]]
    ELSE Append(d, [key |-> key, val |-> val])

RECURSIVE SumSeq(_)
\* sum(...) of a sequence of numbers, left to right
SumSeq(s) == IF s = <<>> THEN 0 ELSE SumSeq(SubSeq(s, 1, Len(s) - 1)) + s[Len(s)]

RECURSIVE Concat(_)
\* the concatenation of a sequence of sequences
Concat(ss) == IF ss = <<>> THEN <<>> ELSE Head(ss) \o Concat(Tail(ss))

\* Python's == on two cells: numbers compare by value, NaN equals nothing
CellEq(a, b) ==
    CASE a.k = "nan" \/ b.k = "nan" -> FALSE
      [] a.k = "str" /\ b.k = "str" -> a.s = b.s
      [] a.k = "str" \/ b.k = "str" -> FALSE
      [] OTHER -> FloatOf(a).v = FloatOf(b).v

----------------------------------------------------------------------------
(* AllocationEngine (src/allocation_engine.py).                             *)
(* A loaded table is a sequence of rows.  A stations / loads row has the    *)
(* canonical columns id (电站编号 / 用户编号), name (电站名称 / 用电用户),  *)
(* value (出力 / 负荷) and point (点位); a section-mapping row has id       *)
(* (断面编号), name (断面名称) and point (点位).  The name column holds     *)
(* text, so a row keeps each cell's own type (an object-dtype row).         *)

\* get_active_points: the keys of the status map whose status is 1
get_active_points(d) ==
    LET act == SelectSeq(d.point_status, LAMBDA e : e.val = 1)
    IN [i \in 1..Len(act) |-> act[i].key]

\* a lookup that takes a point the map does not list for an active one
PointStatusOf_AbsentActive(ps, point_id) == DictGet(ps, point_id, 1)

\* self.data['point_status'].get(point_id, 0)
PointStatusOf(ps, point_id) == DictGet(ps, point_id, 0)

\* float(x) if pd.notna(x) and str(x).replace('.', '').isdigit() else 0.0,
\* with ValueError / TypeError giving 0.0
AllocationValue(c) ==
    IF notna(c) /\ isdigit(RemoveDots(Str(c)))
    THEN (IF FloatOf(c).raised THEN 0 ELSE FloatOf(c).v)
    ELSE 0

\* df[df[id].astype(str) == wanted]
RowsWithId(table, wanted) == SelectSeq(table, LAMBDA r : Str(r.id) = wanted)

get_station_allocation(d, station_id) ==
    LET station_data == RowsWithId(d.stations, station_id)
        station_info == station_data[1]
        point_id == Str(station_info.point)
    IN IF station_data = <<>>
       THEN [status |-> "not_found", allocation |-> 0,
             reason |-> <<"Station ", station_id, " not found">>]
       ELSE IF PointStatusOf(d.point_status, point_id) = 1
       THEN [status |-> "active",
             allocation |-> AllocationValue(station_info.value),
             reason |-> <<"Point ", point_id, " is active">>,
             station_name |-> station_info.name,
             point_id |-> point_id]
       ELSE [status |-> "inactive",
             allocation |-> 0,
             reason |-> <<"Point ", point_id, " is inactive">>,
             station_name |-> station_info.name,
             point_id |-> point_id]

get_load_allocation(d, load_id) ==
    LET load_data == RowsWithId(d.loads, load_id)
        load_info == load_data[1]
        point_id == Str(load_info.point)
    IN IF load_data = <<>>
       THEN [status |-> "not_found", allocation |-> 0,
             reason |-> <<"Load ", load_id, " not found">>]
       ELSE IF PointStatusOf(d.point_status, point_id) = 1
       THEN [status |-> "active",
             allocation |-> AllocationValue(load_info.value),
             reason |-> <<"Point ", point_id, " is active">>,
             user_name |-> load_info.name,
             point_id |-> point_id]
       ELSE [status |-> "inactive",
             allocation |-> 0,
             reason |-> <<"Point ", point_id, " is inactive">>,
             user_name |-> load_info.name,
             point_id |-> point_id]

\* df[df['点位'].astype(str) == point_id]
RowsOnPoint(table, point_id) == SelectSeq(table, LAMBDA r : Str(r.point) = point_id)

\* the inner loops of calculate_section_allocation for one row of the section:
\* the active stations, then the active loads, found on the row's point
RowContributions(d, point_row) ==
    LET point_id == Str(point_row.name)
        station_matches == RowsOnPoint(d.stations, point_id)
        load_matches == RowsOnPoint(d.loads, point_id)
        st == [i \in 1..Len(station_matches) |->
                 [kind |-> "Station", id |-> Str(station_matches[i].id),
                  rec |-> get_station_allocation(d, Str(station_matches[i].id))]]
        ld == [i \in 1..Len(load_matches) |->
                 [kind |-> "Load", id |-> Str(load_matches[i].id),
                  rec |-> get_load_allocation(d, Str(load_matches[i].id))]]
    IN SelectSeq(st \o ld, LAMBDA c : c.rec.status = "active")

\* section_df[section_df['点位'] == section_name]
SectionRows(d, section_name) ==
    SelectSeq(d.section_mapping, LAMBDA r : CellEq(r.point, section_name))

calculate_section_allocation(d, section_name) ==
    LET section_points == SectionRows(d, section_name)
        contrib == Concat([i \in 1..Len(section_points) |->
                             RowContributions(d, section_points[i])])
        gen == SelectSeq(contrib, LAMBDA c : c.kind = "Station")
        ld == SelectSeq(contrib, LAMBDA c : c.kind = "Load")
        total_generation == SumSeq([i \in 1..Len(gen) |-> gen[i].rec.allocation])
        total_load == SumSeq([i \in 1..Len(ld) |-> ld[i].rec.allocation])
    IN IF section_points = <<>>
       THEN [total_generation |-> 0, total_load |-> 0, balance |-> 0,
             active_points |-> <<>>]
       ELSE [section_name |-> section_name,
             total_generation |-> total_generation,
             total_load |-> total_load,
             balance |-> total_generation - total_load,
             active_points |-> [i \in 1..Len(contrib) |-> <<contrib[i].kind, contrib[i].id>>]]

RECURSIVE Unique(_)
\* Series.unique(): the values in order of first appearance (NaN once)
Unique(cells) ==
    IF cells = <<>> THEN <<>>
    ELSE LET init == SubSeq(cells, 1, Len(cells) - 1)
             last == cells[Len(cells)]
             u == Unique(init)
         IN IF \E i \in 1..Len(u) : CellEq(u[i], last) \/ (u[i] = NaN /\ last = NaN)
            THEN u ELSE Append(u, last)

\* the sections of run_full_simulation: unique values of 点位 that are not NaN
unique_sections(d) ==
    SelectSeq(Unique([i \in 1..Len(d.section_mapping) |-> d.section_mapping[i].point]),
              LAMBDA c : notna(c))

\* a balance that adds the demand instead of subtracting it
OverallBalance_Added(gen, load) == gen + load

\* overall_balance = total_active_generation - total_active_load
OverallBalance(gen, load) == gen - load

\* the summary's total_active_points
TotalActivePoints(active_points) == Len(active_points)

\* run_full_simulation's results, from self.data alone
Simulate(d) ==
    LET active_points == get_active_points(d)
        station_results == [i \in 1..Len(d.stations) |->
                              get_station_allocation(d, Str(d.stations[i].id))]
        load_results == [i \in 1..Len(d.loads) |->
                           get_load_allocation(d, Str(d.loads[i].id))]
        us == unique_sections(d)
        section_results == [i \in 1..Len(us) |-> calculate_section_allocation(d, us[i])]
        act_s == SelectSeq(station_results, LAMBDA r : r.status = "active")
        act_l == SelectSeq(load_results, LAMBDA r : r.status = "active")
        total_active_generation == SumSeq([i \in 1..Len(act_s) |-> act_s[i].allocation])
        total_active_load == SumSeq([i \in 1..Len(act_l) |-> act_l[i].allocation])
    IN [summary |-> [total_active_points |-> TotalActivePoints(active_points),
                     total_active_generation |-> total_active_generation,
                     total_active_load |-> total_active_load,
                     overall_balance |-> OverallBalance(total_active_generation,
                                                        total_active_load),
                     active_points |-> active_points],
        stations |-> station_results,
        loads |-> load_results,
        sections |-> section_results,
        optional_rules_applied |-> Len(d.optional_rules) > 0]

\* self.results = {}: the empty dict, which "not self.results" tests for
NoResults == [empty |-> TRUE]

\* a simulation that carries the generation total of the stored results over
\* into the new ones
run_full_simulation_Carrying(self) ==
    IF self.results = NoResults THEN Simulate(self.data)
    ELSE [Simulate(self.data) EXCEPT
            !.summary.total_active_generation =
                @ + self.results.summary.total_active_generation + 1]

\* run_full_simulation(self): the value stored in self.results and returned
run_full_simulation(self) == Simulate(self.data)

----------------------------------------------------------------------------
(* The activation table.  A DataFrame is [columns, rows]: the column labels *)
(* (cells: a numeric header is a number, a text header a string) and the    *)
(* rows, each the sequence of its cells in column order.                    *)

DIANWEI == <<"dian", "wei">>
ZHUANGTAI == <<"zhuang", "tai">>

\* label in df.columns
HasColumn(df, label) == \E j \in 1..Len(df.columns) : df.columns[j] = S(label)

ColumnOf(df, label) == CHOOSE j \in 1..Len(df.columns) : df.columns[j] = S(label)

\* The point id of a long-form row (DataLoader): str(cell).strip(), and a
\* digits-and-dots id goes through str(int(float(id))); float() may raise
LongPointId(c) ==
    LET point_id == Strip(Str(c))
    IN IF isdigit(RemoveDots(point_id))
       THEN (IF FloatOfStr(point_id).raised THEN Raise
             ELSE Ok(IntStr(TruncTenths(FloatOfStr(point_id).v))))
       ELSE Ok(point_id)

\* status = int(row['状态'])
StatusCode(c) == IntOf(c)

\* One row of the two-column layout: a row with a blank cell is passed over,
\* a row whose id or status raises ValueError is skipped (continue)
LongRow(ps, df, row) ==
    LET pc == row[ColumnOf(df, DIANWEI)]
        sc == row[ColumnOf(df, ZHUANGTAI)]
    IN IF notna(pc) /\ notna(sc)
       THEN (IF LongPointId(pc).raised \/ StatusCode(sc).raised THEN ps
             ELSE DictSet(ps, LongPointId(pc).v, StatusCode(sc).v))
       ELSE ps

RECURSIVE LongRows(_, _)
\* the loop over df.iterrows(), rows 1..n
LongRows(df, n) == IF n = 0 THEN <<>> ELSE LongRow(LongRows(df, n - 1), df, df.rows[n])

\* One column of the wide layout: only a column whose label is all digits is
\* a point; int() of its first-row cell is not guarded and may raise
WideColumn(acc, df, j) ==
    LET col == df.columns[j]
        cell == df.rows[1][j]
    IN IF acc.raised THEN acc
       ELSE IF isdigit(Str(col)) /\ notna(cell)
       THEN (IF StatusCode(cell).raised THEN Raise
             ELSE Ok(DictSet(acc.v, Str(col), StatusCode(cell).v)))
       ELSE acc

RECURSIVE WideColumns(_, _)
\* the loop over df.columns, columns 1..n
WideColumns(df, n) == IF n = 0 THEN Ok(<<>>) ELSE WideColumn(WideColumns(df, n - 1), df, n)

\* DataLoader.load_point_status on the sheet it found: the status map, or the
\* ValueError the outer except raises
load_point_status(df) ==
    IF HasColumn(df, DIANWEI) /\ HasColumn(df, ZHUANGTAI)
    THEN Ok(LongRows(df, Len(df.rows)))
    ELSE IF Len(df.rows) > 0 THEN WideColumns(df, Len(df.columns))
    ELSE Ok(<<>>)

\* ACTIVE_STATES of src/data/data_loader.py: 1 and the nine tokens
\* "1", 在线, 正常, "ON", "on", "true", "True", 是, "Y"
ACTIVE_STATES ==
    {I(1), S(<<"1">>), S(<<"zai", "xian">>), S(<<"zheng", "chang">>), S(<<"O", "N">>),
     S(<<"o", "n">>), S(<<"t", "r", "u", "e">>), S(<<"T", "r", "u", "e">>),
     S(<<"shi">>), S(<<"Y">>)}

\* load_data._is_active
_is_active(v) ==
    IF ~notna(v) THEN FALSE
    ELSE IF v.k \in {"int", "float"} THEN I(IntOf(v).v) \in ACTIVE_STATES
    ELSE S(Strip(Str(v))) \in ACTIVE_STATES

RECURSIVE TemplateLong(_, _)
\* load_data, two-column layout: point_status[str(row[0]).strip()] = row[1]
TemplateLong(df, n) ==
    IF n = 0 THEN <<>>
    ELSE DictSet(TemplateLong(df, n - 1), Strip(Str(df.rows[n][1])), df.rows[n][2])

RECURSIVE TemplateWide(_, _)
\* load_data, the other layout: point_status[str(col).strip()] = first_row[col]
TemplateWide(df, n) ==
    IF n = 0 THEN <<>>
    ELSE DictSet(TemplateWide(df, n - 1), Strip(Str(df.columns[n])), df.rows[1][n])

\* load_data's point_status and active_points; df.iloc[0] of a table with no
\* row raises IndexError
load_data_point_status(df) ==
    LET point_status ==
            IF Len(df.columns) = 2 /\ HasColumn(df, DIANWEI) /\ HasColumn(df, ZHUANGTAI)
            THEN Ok(TemplateLong(df, Len(df.rows)))
            ELSE IF Len(df.rows) = 0 THEN Raise
            ELSE Ok(TemplateWide(df, Len(df.columns)))
    IN IF point_status.raised THEN Raise
       ELSE [raised |-> FALSE,
             v |-> point_status.v,
             active_points |-> {point_status.v[i].key : i \in
                                 {j \in 1..Len(point_status.v) :
                                    _is_active(point_status.v[j].val)}}]

\* The two physical layouts of one list of (point, code) pairs
LongOf(pairs) ==
    [columns |-> <<S(DIANWEI), S(ZHUANGTAI)>>,
     rows |-> [i \in 1..Len(pairs) |-> <<pairs[i].point, pairs[i].code>>]]

WideOf(pairs) ==
    [columns |-> [i \in 1..Len(pairs) |-> pairs[i].point],
     rows |-> IF pairs = <<>> THEN <<>> ELSE <<[i \in 1..Len(pairs) |-> pairs[i].code]>>]

Layouts == {"long", "wide"}

TableOf(pairs, layout) == IF layout = "long" THEN LongOf(pairs) ELSE WideOf(pairs)

----------------------------------------------------------------------------
(* Schema resolution (DataLoader.load_section_mapping / load_stations /     *)
(* load_loads).  Only the column labels matter: a table file is the set of  *)
(* its column names.  The names are written in pinyin:                      *)
(*   xuhao 序号, bianhao 编号, daima 代码, duanmian 断面, dianwei 点位,     *)
(*   duanmian_bianhao 断面编号, duanmian_mingcheng 断面名称,                *)
(*   dianzhan_bianhao 电站编号, dianzhan_mingcheng 电站名称, chuli 出力,    *)
(*   shiji_chuli 实际出力, chuli_MW 出力(MW), yonghu_bianhao 用户编号,      *)
(*   yongdian_yonghu 用电用户, yonghu_mingcheng 用户名称, yonghu 用户,      *)
(*   fuhe 负荷, fuhe_MW 负荷(MW).                                           *)

EmptyDict == [c \in {} |-> c]

Range(f) == {f[c] : c \in DOMAIN f}

\* rename_dict[key] = val
Put(rd, key, val) == (key :> val) @@ rd

\* df.rename(columns=rename_dict), on the set of labels
rename(cols, rd) == {IF c \in DOMAIN rd THEN rd[c] ELSE c : c \in cols}

\* self.required_files, and the required_cols lists of load_stations / load_loads
required_files(kind) ==
    CASE kind = "sections" -> <<"duanmian_bianhao", "duanmian_mingcheng", "dianwei">>
      [] kind = "stations" -> <<"dianzhan_bianhao", "dianzhan_mingcheng", "chuli", "dianwei">>
      [] kind = "loads" -> <<"yonghu_bianhao", "yongdian_yonghu", "fuhe", "dianwei">>

\* self.column_mappings['断面关系表.xlsx']
section_column_mappings ==
    Put(Put(Put(EmptyDict, "xuhao", "duanmian_bianhao"), "daima", "duanmian_mingcheng"),
        "duanmian", "dianwei")

\* the ValueError of a failed validation: the missing columns, and list(df.columns)
MissingColumns(missing, cols) == [raised |-> TRUE, missing |-> missing, available |-> cols]

\* a table that loaded: its columns, and those filled in with a default value
LoadedTable(cols, defaulted) == [raised |-> FALSE, columns |-> cols, defaulted |-> defaulted]

\* validate_columns for a file that has a column mapping: a required column is
\* there, or a column that maps to it is
validate_columns(cols, required_columns, mapping) ==
    SelectSeq(required_columns,
              LAMBDA req_col : ~(req_col \in cols
                                 \/ \E actual_col \in DOMAIN mapping :
                                      mapping[actual_col] = req_col /\ actual_col \in cols))

load_section_mapping(cols) ==
    LET mapping == section_column_mappings
        rename_dict == [c \in DOMAIN mapping \cap cols |-> mapping[c]]
        df == rename(cols, rename_dict)
        missing == validate_columns(df, required_files("sections"), mapping)
    IN IF missing # <<>> THEN MissingColumns(missing, df) ELSE LoadedTable(df, {})

load_stations(cols) ==
    LET rd1 == IF "daima" \in cols THEN Put(EmptyDict, "daima", "dianwei") ELSE EmptyDict
        rd2 == IF "shiji_chuli" \in cols THEN Put(rd1, "shiji_chuli", "chuli")
               ELSE IF "chuli_MW" \in cols THEN Put(rd1, "chuli_MW", "chuli")
               ELSE rd1
        rd3 == IF "xuhao" \in cols THEN Put(rd2, "xuhao", "dianzhan_bianhao")
               ELSE IF "bianhao" \in cols THEN Put(rd2, "bianhao", "dianzhan_bianhao")
               ELSE IF "daima" \in cols /\ "dianzhan_bianhao" \notin Range(rd2)
                    THEN Put(rd2, "daima", "dianzhan_bianhao")
               ELSE rd2
        df == rename(cols, rd3)
        missing_cols == SelectSeq(required_files("stations"), LAMBDA col : col \notin df)
    IN IF missing_cols # <<>> THEN MissingColumns(missing_cols, df) ELSE LoadedTable(df, {})

\* the 负荷 column of load_loads: added with the default 0.0 when neither 负荷
\* nor 负荷(MW) is there
LoadColumnDefault(df) ==
    IF "fuhe" \notin df /\ "fuhe_MW" \notin df THEN {"fuhe"} ELSE {}

load_loads(cols) ==
    LET rd1 == IF "daima" \in cols THEN Put(EmptyDict, "daima", "dianwei") ELSE EmptyDict
        rd2 == IF "yonghu_mingcheng" \in cols THEN Put(rd1, "yonghu_mingcheng", "yongdian_yonghu")
               ELSE IF "yonghu" \in cols THEN Put(rd1, "yonghu", "yongdian_yonghu")
               ELSE rd1
        rd3 == IF "xuhao" \in cols THEN Put(rd2, "xuhao", "yonghu_bianhao")
               ELSE IF "bianhao" \in cols THEN Put(rd2, "bianhao", "yonghu_bianhao")
               ELSE IF "daima" \in cols /\ "yonghu_bianhao" \notin Range(rd2)
                    THEN Put(rd2, "daima", "yonghu_bianhao")
               ELSE rd2
        df1 == rename(cols, rd3)
        defaulted == LoadColumnDefault(df1)
        df2 == IF defaulted # {} THEN df1 \cup defaulted
               ELSE IF "fuhe_MW" \in df1 THEN rename(df1, Put(EmptyDict, "fuhe_MW", "fuhe"))
               ELSE df1
        missing_cols == SelectSeq(required_files("loads"), LAMBDA col : col \notin df2)
    IN IF missing_cols # <<>> THEN MissingColumns(missing_cols, df2)
       ELSE LoadedTable(df2, defaulted)

\* The source columns each loader accepts for a canonical field: the field's
\* own name and the names the loader renames to it
AcceptedColumns(kind, field) ==
    {field} \cup
    (CASE kind = "sections" ->
            {c \in DOMAIN section_column_mappings : section_column_mappings[c] = field}
       [] kind = "stations" ->
            (CASE field = "dianzhan_bianhao" -> {"xuhao", "bianhao", "daima"}
               [] field = "chuli" -> {"shiji_chuli", "chuli_MW"}
               [] field = "dianwei" -> {"daima"}
               [] OTHER -> {})
       [] kind = "loads" ->
            (CASE field = "yonghu_bianhao" -> {"xuhao", "bianhao", "daima"}
               [] field = "yongdian_yonghu" -> {"yonghu_mingcheng", "yonghu"}
               [] field = "fuhe" -> {"fuhe_MW"}
               [] field = "dianwei" -> {"daima"}
               [] OTHER -> {}))

Kinds == {"sections", "stations", "loads"}

SeqRange(s) == {s[i] : i \in 1..Len(s)}

\* every column name a loader of the kind looks at
KnownColumns(kind) ==
    UNION {AcceptedColumns(kind, f) : f \in SeqRange(required_files(kind))}

LoadTable(kind, cols) ==
    CASE kind = "sections" -> load_section_mapping(cols)
      [] kind = "stations" -> load_stations(cols)
      [] kind = "loads" -> load_loads(cols)

----------------------------------------------------------------------------
(* get_summary_report: the data the report text is built from *)

PreviewCap == 10

NoReport == "No simulation results available. Run simulation first."

\* a report whose preview stops at the cap without a tail line
get_summary_report_NoTail(self) ==
    IF self.results = NoResults THEN NoReport
    ELSE LET active_stations == SelectSeq(self.results.stations, LAMBDA s : s.status = "active")
             shown == SubSeq(active_stations, 1,
                             IF Len(active_stations) > PreviewCap THEN PreviewCap
                             ELSE Len(active_stations))
         IN [total_active_points |-> self.results.summary.total_active_points,
             total_active_generation |-> self.results.summary.total_active_generation,
             total_active_load |-> self.results.summary.total_active_load,
             overall_balance |-> self.results.summary.overall_balance,
             active_stations |-> Len(active_stations),
             inactive_stations |-> Len(self.results.stations) - Len(active_stations),
             details |-> [i \in 1..Len(shown) |->
                            <<shown[i].station_name, shown[i].allocation, shown[i].point_id>>],
             more |-> <<>>,
             active_loads |-> Len(SelectSeq(self.results.loads, LAMBDA l : l.status = "active")),
             inactive_loads |-> Len(SelectSeq(self.results.loads, LAMBDA l : l.status = "inactive")),
             optional_rules |-> IF self.results.optional_rules_applied
                                THEN <<Len(self.data.optional_rules)>> ELSE <<>>]

get_summary_report(self) ==
    IF self.results = NoResults THEN NoReport
    ELSE LET summary == self.results.summary
             active_stations == SelectSeq(self.results.stations, LAMBDA s : s.status = "active")
             inactive_stations == SelectSeq(self.results.stations, LAMBDA s : s.status = "inactive")
             active_loads == SelectSeq(self.results.loads, LAMBDA l : l.status = "active")
             inactive_loads == SelectSeq(self.results.loads, LAMBDA l : l.status = "inactive")
             shown == SubSeq(active_stations, 1,
                             IF Len(active_stations) > PreviewCap THEN PreviewCap
                             ELSE Len(active_stations))
         IN [total_active_points |-> summary.total_active_points,
             total_active_generation |-> summary.total_active_generation,
             total_active_load |-> summary.total_active_load,
             overall_balance |-> summary.overall_balance,
             active_stations |-> Len(active_stations),
             inactive_stations |-> Len(inactive_stations),
             details |-> [i \in 1..Len(shown) |->
                            <<shown[i].station_name, shown[i].allocation, shown[i].point_id>>],
             more |-> IF Len(active_stations) > PreviewCap
                      THEN <<Len(active_stations) - PreviewCap>> ELSE <<>>,
             active_loads |-> Len(active_loads),
             inactive_loads |-> Len(inactive_loads),
             optional_rules |-> IF self.results.optional_rules_applied
                                THEN <<Len(self.data.optional_rules)>> ELSE <<>>]

----------------------------------------------------------------------------
(* The inputs of the engine's specification *)

MaxStations == 2
MaxLoads == 1

SeqsUpTo(set, n) == UNION {[1..m -> set] : m \in 0..n}

\* the name of the i-th row of a table: every row has a name of its own
RowName(prefix, i) == S(<<prefix, DigitChars[i + 1]>>)

StationIds == {I(1), I(2)}
\* <<output, point>>: 50 on point 1; -5 on point 1; 5.5 on point 1.0 (a
\* numeric cell of a float column)
StationCells == {<<I(50), I(1)>>, <<I(-5), I(1)>>, <<F(55), F(10)>>}

StationTables ==
    {[i \in 1..Len(c) |-> [id |-> c[i][1], name |-> RowName("G", i),
                           value |-> c[i][2][1], point |-> c[i][2][2]]] :
        c \in SeqsUpTo(StationIds \X StationCells, MaxStations)}

LoadIds == {I(1)}
\* <<demand, point>>: 30 on point 2; the text "2.5" on point 1
LoadCells == {<<I(30), I(2)>>, <<S(<<"2", ".", "5">>), I(1)>>}

LoadTables ==
    {[i \in 1..Len(c) |-> [id |-> c[i][1], name |-> RowName("U", i),
                           value |-> c[i][2][1], point |-> c[i][2][2]]] :
        c \in SeqsUpTo(LoadIds \X LoadCells, MaxLoads)}

SectionRow(id, name, point) == [id |-> I(id), name |-> name, point |-> point]

S1 == S(<<"S", "1">>)
S2 == S(<<"S", "2">>)

\* Section tables as DataLoader hands them over (the file's 断面 column is
\* the 点位 column, its 代码 column the 断面名称 column): section S1 with the
\* points 1 and 2; S1 naming point 1 in two rows and S2 with point 2
SectionTables ==
    {<<SectionRow(1, I(1), S1), SectionRow(2, I(2), S1)>>,
     <<SectionRow(1, I(1), S1), SectionRow(2, I(1), S1), SectionRow(3, I(2), S2)>>}

Pair(point, code) == [point |-> point, code |-> code]

\* Activation tables of the engine's runs, in the two-column layout:
\* 1 active and 2 inactive; 1.0 and "2" both active; 2 active and 3 with code 2
EngineTemplates ==
    {<<Pair(I(1), I(1)), Pair(I(2), I(0))>>,
     <<Pair(F(10), I(1)), Pair(S(<<"2">>), S(<<"1">>))>>,
     <<Pair(I(2), I(1)), Pair(I(3), I(2))>>}

\* data['optional_rules']: the names of the rule files that loaded.  No
\* computation reads a rule file, so they vary only with the short station tables.
RuleFiles(stations) == IF Len(stations) > 1 THEN {<<>>} ELSE {<<>>, <<"D">>}

\* what load_all_data returns: the five entries of data
EngineData ==
    UNION {{[section_mapping |-> sec, stations |-> st, loads |-> ld,
             point_status |-> load_point_status(LongOf(p)).v, optional_rules |-> r] :
               sec \in SectionTables, ld \in LoadTables, p \in EngineTemplates,
               r \in RuleFiles(st)} : st \in StationTables}

None == [none |-> TRUE]

self == [data |-> data, results |-> results]

\* the ids a caller asks for: those of the table, and one no row has
AskedIds(table) == {Str(table[i].id) : i \in 1..Len(table)} \cup {<<"0">>}

AskedSections == {S1, S2}

----------------------------------------------------------------------------
(* The engine: construction, then its operations in any order *)

EngineInit ==
    /\ data \in EngineData
    /\ results = NoResults
    /\ op = "__init__"
    /\ ret = None

Init ==
    /\ EngineInit
    /\ tmpl = None /\ parsed = None /\ parsed2 = None
    /\ xls = None /\ loaded = None
    /\ fs = None /\ cycle = None /\ win = None /\ workers = None
    /\ reg = None /\ assigned = None

otherVars == <<statusVars, schemaVars, loadVars, appVars, sectionVars>>

GetActivePoints ==
    /\ op' = "get_active_points"
    /\ ret' = get_active_points(data)
    /\ UNCHANGED <<data, results, otherVars>>

GetStationAllocation ==
    \E station_id \in AskedIds(data.stations) :
        /\ op' = "get_station_allocation"
        /\ ret' = get_station_allocation(data, station_id)
        /\ UNCHANGED <<data, results, otherVars>>

GetLoadAllocation ==
    \E load_id \in AskedIds(data.loads) :
        /\ op' = "get_load_allocation"
        /\ ret' = get_load_allocation(data, load_id)
        /\ UNCHANGED <<data, results, otherVars>>

CalculateSectionAllocation ==
    \E section_name \in AskedSections :
        /\ op' = "calculate_section_allocation"
        /\ ret' = calculate_section_allocation(data, section_name)
        /\ UNCHANGED <<data, results, otherVars>>

\* self.results = results; return results
RunFullSimulation ==
    /\ op' = "run_full_simulation"
    /\ results' = run_full_simulation(self)
    /\ ret' = results'
    /\ UNCHANGED <<data, otherVars>>

\* a report that drops the stored results
GetSummaryReport_Clearing ==
    /\ op' = "get_summary_report"
    /\ ret' = get_summary_report(self)
    /\ results' = NoResults
    /\ UNCHANGED <<data, otherVars>>

GetSummaryReport ==
    /\ op' = "get_summary_report"
    /\ ret' = get_summary_report(self)
    /\ UNCHANGED <<data, results, otherVars>>

Next ==
    \/ GetActivePoints
    \/ GetStationAllocation
    \/ GetLoadAllocation
    \/ CalculateSectionAllocation
    \/ RunFullSimulation
    \/ GetSummaryReport

Spec == Init /\ [][Next]_vars

----------------------------------------------------------------------------
(* Parsing an activation table: the same (point, code) pairs are laid out   *)
(* in the two-column and in the points-as-columns layout, and each loader   *)
(* parses each layout.                                                      *)

MaxPairs == 2

\* point cells / column labels: 1, 2, the text "7.0", and a header that is no point
TemplatePoints == {I(1), I(2), S(<<"7", ".", "0">>), S(<<"b", "e", "i">>)}

\* status codes: 1, 0, 1.0, "1", "0", 在线, an unknown word, a blank cell
TemplateCodes ==
    {I(1), I(0), F(10), S(<<"1">>), S(<<"0">>), S(<<"zai", "xian">>), S(<<"x">>), NaN}

\* the lists of pairs with distinct points (column labels are distinct)
Templates ==
    {p \in SeqsUpTo([point : TemplatePoints, code : TemplateCodes], MaxPairs) :
        /\ p # <<>>
        /\ \A i, j \in 1..Len(p) : i # j => p[i].point # p[j].point}

StatusInit ==
    /\ tmpl \in Templates
    /\ parsed = [l \in Layouts |-> None]
    /\ parsed2 = [l \in Layouts |-> None]
    /\ data = None /\ results = None /\ op = None /\ ret = None
    /\ xls = None /\ loaded = None
    /\ fs = None /\ cycle = None /\ win = None /\ workers = None
    /\ reg = None /\ assigned = None

\* DataLoader.load_point_status reads the table in one of its layouts
LoadPointStatus ==
    \E layout \in Layouts :
        /\ parsed[layout] = None
        /\ parsed' = [parsed EXCEPT ![layout] = load_point_status(TableOf(tmpl, layout))]
        /\ UNCHANGED <<tmpl, parsed2, engineVars, schemaVars, loadVars, appVars, sectionVars>>

\* load_data reads the table in one of its layouts
LoadData ==
    \E layout \in Layouts :
        /\ parsed2[layout] = None
        /\ parsed2' = [parsed2 EXCEPT ![layout] = load_data_point_status(TableOf(tmpl, layout))]
        /\ UNCHANGED <<tmpl, parsed, engineVars, schemaVars, loadVars, appVars, sectionVars>>

StatusNext == LoadPointStatus \/ LoadData

SpecStatus == StatusInit /\ [][StatusNext]_vars

----------------------------------------------------------------------------
(* Loading one table file: the file has any of the column names its loader  *)
(* looks at.                                                                *)

SchemaInit ==
    /\ \E k \in Kinds : \E c \in SUBSET KnownColumns(k) : xls = [kind |-> k, columns |-> c]
    /\ loaded = None
    /\ data = None /\ results = None /\ op = None /\ ret = None
    /\ tmpl = None /\ parsed = None /\ parsed2 = None
    /\ fs = None /\ cycle = None /\ win = None /\ workers = None
    /\ reg = None /\ assigned = None

LoadSectionMapping ==
    /\ xls.kind = "sections" /\ loaded = None
    /\ loaded' = load_section_mapping(xls.columns)
    /\ UNCHANGED <<xls, engineVars, statusVars, loadVars, appVars, sectionVars>>

LoadStations ==
    /\ xls.kind = "stations" /\ loaded = None
    /\ loaded' = load_stations(xls.columns)
    /\ UNCHANGED <<xls, engineVars, statusVars, loadVars, appVars, sectionVars>>

LoadLoads ==
    /\ xls.kind = "loads" /\ loaded = None
    /\ loaded' = load_loads(xls.columns)
    /\ UNCHANGED <<xls, engineVars, statusVars, loadVars, appVars, sectionVars>>

SchemaNext == LoadSectionMapping \/ LoadStations \/ LoadLoads

SpecSchema == SchemaInit /\ [][SchemaNext]_vars

----------------------------------------------------------------------------
(* A load cycle (DataLoader.load_all_data).  The input directory gives each *)
(* required file one of three states: "absent", "ok" (its loader returns a  *)
(* table) or "bad" (the file is there and its loader raises); an optional   *)
(* rule file is "absent", "ok" or "corrupt" (pd.read_excel raises).  File   *)
(* names are written in pinyin: duanmian_guanxi 断面关系表.xlsx,            *)
(* dianzhan_xinxi 电站信息表.xlsx, fuhe_xinxi 负荷信息表.xlsx,              *)
(* daoru_shuju 导入数据（测试）.xlsx.                                       *)

\* the keys of self.required_files, in the order of the dict
RequiredFileNames == <<"duanmian_guanxi", "dianzhan_xinxi", "fuhe_xinxi", "daoru_shuju">>

\* self.optional_files
optional_files == <<"D_zhan", "T_zhan", "qita", "da_yonghu", "zhijie_guajie", "zhijie_da_yonghu">>

\* how many of the optional files the input directory may hold
MaxOptional == 2

OptionalFileNames == SubSeq(optional_files, 1, MaxOptional)

\* validate_file_exists
validate_file_exists(f, filename) ==
    IF filename \in SeqRange(RequiredFileNames) THEN f.required[filename] # "absent"
    ELSE filename \in DOMAIN f.optional /\ f.optional[filename] # "absent"

\* a check that stops at the first file it does not find
MissingFiles_FirstOnly(f) ==
    LET all == SelectSeq(RequiredFileNames, LAMBDA filename : ~validate_file_exists(f, filename))
    IN IF all = <<>> THEN <<>> ELSE <<all[1]>>

\* the missing_files list of load_all_data
MissingFiles(f) ==
    SelectSeq(RequiredFileNames, LAMBDA filename : ~validate_file_exists(f, filename))

\* a rule loader that keeps every optional file it finds, loaded or not
load_optional_rules_KeepAll(f) ==
    SelectSeq(optional_files, LAMBDA filename : validate_file_exists(f, filename))

\* load_optional_rules: the file names of the rules dict, in insertion order;
\* a file that exists and fails to load is passed over with a warning
load_optional_rules(f) ==
    SelectSeq(optional_files,
              LAMBDA filename : validate_file_exists(f, filename)
                                /\ f.optional[filename] = "ok")

\* the optional files load_optional_rules opens
OptionalReads(f) ==
    SelectSeq(optional_files, LAMBDA filename : validate_file_exists(f, filename))

RECURSIVE LoadRequired(_, _)
\* the four loads of load_all_data, in order, from the n-th on: the files
\* read, and the file whose loader raised (none, or one)
LoadRequired(f, n) ==
    IF n > Len(RequiredFileNames) THEN [reads |-> <<>>, failed |-> <<>>]
    ELSE IF f.required[RequiredFileNames[n]] = "bad"
         THEN [reads |-> <<RequiredFileNames[n]>>, failed |-> <<RequiredFileNames[n]>>]
         ELSE LET rest == LoadRequired(f, n + 1)
              IN [reads |-> <<RequiredFileNames[n]>> \o rest.reads, failed |-> rest.failed]

\* a load cycle that returns the tables it could load when one fails to load
load_all_data_Partial(f) ==
    LET missing_files == MissingFiles(f)
        tables == LoadRequired(f, 1)
    IN IF missing_files # <<>>
       THEN [raised |-> TRUE, error |-> "Missing required files",
             missing |-> missing_files, reads |-> <<>>]
       ELSE IF tables.failed # <<>>
       THEN [raised |-> FALSE,
             data |-> [optional_rules |-> load_optional_rules(f)],
             reads |-> tables.reads]
       ELSE [raised |-> FALSE,
             data |-> [section_mapping |-> RequiredFileNames[1],
                       stations |-> RequiredFileNames[2],
                       loads |-> RequiredFileNames[3],
                       point_status |-> RequiredFileNames[4],
                       optional_rules |-> load_optional_rules(f)],
             reads |-> tables.reads \o OptionalReads(f)]

\* DataLoader.load_all_data: the ValueError it raises or the data it returns,
\* with the files it has opened
load_all_data(f) ==
    LET missing_files == MissingFiles(f)
        tables == LoadRequired(f, 1)
    IN IF missing_files # <<>>
       THEN [raised |-> TRUE, error |-> "Missing required files",
             missing |-> missing_files, reads |-> <<>>]
       ELSE IF tables.failed # <<>>
       THEN [raised |-> TRUE, error |-> "Data loading failed",
             missing |-> <<>>, failed |-> tables.failed, reads |-> tables.reads]
       ELSE [raised |-> FALSE,
             data |-> [section_mapping |-> RequiredFileNames[1],
                       stations |-> RequiredFileNames[2],
                       loads |-> RequiredFileNames[3],
                       point_status |-> RequiredFileNames[4],
                       optional_rules |-> load_optional_rules(f)],
             reads |-> tables.reads \o OptionalReads(f)]

FileSystems ==
    [required : [SeqRange(RequiredFileNames) -> {"absent", "ok", "bad"}],
     optional : [SeqRange(OptionalFileNames) -> {"absent", "ok", "corrupt"}]]

LoadInit ==
    /\ fs \in FileSystems
    /\ cycle = None
    /\ win = None /\ workers = None
    /\ data = None /\ results = None /\ op = None /\ ret = None
    /\ tmpl = None /\ parsed = None /\ parsed2 = None
    /\ xls = None /\ loaded = None
    /\ reg = None /\ assigned = None

LoadAllData ==
    /\ cycle = None
    /\ cycle' = load_all_data(fs)
    /\ UNCHANGED <<fs, engineVars, statusVars, schemaVars, appVars, sectionVars>>

LoadNext == LoadAllData

SpecLoad == LoadInit /\ [][LoadNext]_vars

----------------------------------------------------------------------------
(* The window (AllocationApp) and its worker threads (SimulationWorker).    *)
(* win holds self.data, self.results, whether simulate_btn is enabled and   *)
(* progress_bar visible, what results_text shows ("" nothing, "summary"     *)
(* the data summary, "report" a simulation report) and whether the window   *)
(* was closed.  The texts of status_label and the message boxes are left    *)
(* out.  A worker is at "load" (started, load_all_data not yet called), at  *)
(* "compute" (data loaded), "done" (run() returned) or "terminated"; it     *)
(* records the data it loaded, the data its engine was built from, the      *)
(* signals it emitted (finished / error) and how many of them the window's  *)
(* slots have handled.  A signal emitted in the worker thread is queued and *)
(* handled later in the window's thread.                                    *)

\* how many workers a window starts at most
MaxWorkers == 2

\* the input directories of the window: everything loads (one rule file
\* corrupt); the status file is absent; the loads file does not load;
\* everything loads and there is no rule file
AppFileSystems ==
    {f \in FileSystems :
        \/ /\ \A n \in DOMAIN f.required : f.required[n] = "ok"
           /\ f.optional[optional_files[1]] = "ok"
           /\ \A n \in DOMAIN f.optional \ {optional_files[1]} : f.optional[n] = "corrupt"
        \/ /\ \A n \in DOMAIN f.required : f.required[n] = "ok"
           /\ \A n \in DOMAIN f.optional : f.optional[n] = "absent"
        \/ /\ f.required[RequiredFileNames[4]] = "absent"
           /\ \A n \in DOMAIN f.required \ {RequiredFileNames[4]} : f.required[n] = "ok"
           /\ \A n \in DOMAIN f.optional : f.optional[n] = "absent"
        \/ /\ f.required[RequiredFileNames[3]] = "bad"
           /\ \A n \in DOMAIN f.required \ {RequiredFileNames[3]} : f.required[n] = "ok"
           /\ \A n \in DOMAIN f.optional : f.optional[n] = "absent"}

\* init_ui: the widgets and fields of a new window
init_ui ==
    [data |-> None, results |-> None, simulate_btn |-> FALSE, progress_bar |-> FALSE,
     results_text |-> "", closed |-> FALSE]

\* an import that forgets the earlier data set when the load fails
import_data_Clearing(w, f) ==
    LET out == load_all_data(f)
    IN IF out.raised
       THEN [w EXCEPT !.data = None, !.progress_bar = FALSE]
       ELSE [w EXCEPT !.data = out.data, !.progress_bar = FALSE,
                      !.simulate_btn = TRUE, !.results_text = "summary"]

\* import_data: self.data is assigned only when load_all_data returns
import_data(w, f) ==
    LET out == load_all_data(f)
    IN IF out.raised
       THEN [w EXCEPT !.progress_bar = FALSE]
       ELSE [w EXCEPT !.data = out.data, !.progress_bar = FALSE,
                      !.simulate_btn = TRUE, !.results_text = "summary"]

\* SimulationWorker("."): a thread that has not loaded anything yet
NewWorker ==
    [pc |-> "load", loaded |-> None, engine |-> None, results |-> None,
     emitted |-> <<>>, handled |-> 0]

\* a run_simulation that starts a worker without looking at self.data
run_simulation_Unchecked(w, ws) ==
    [win |-> [w EXCEPT !.progress_bar = TRUE, !.simulate_btn = FALSE],
     workers |-> Append(ws, NewWorker)]

\* run_simulation: the window and its workers after the call
run_simulation(w, ws) ==
    IF w.data = None THEN [win |-> w, workers |-> ws]
    ELSE [win |-> [w EXCEPT !.progress_bar = TRUE, !.simulate_btn = FALSE],
          workers |-> Append(ws, NewWorker)]

\* check_auto_import / auto_import_and_simulate: when the status file is
\* there, the data is imported and, if that worked, a simulation started
auto_import_and_simulate(w, f) ==
    IF ~validate_file_exists(f, RequiredFileNames[4]) THEN [win |-> w, workers |-> <<>>]
    ELSE LET w2 == import_data(w, f)
         IN IF w2.data # None THEN run_simulation(w2, <<>>)
            ELSE [win |-> w2, workers |-> <<>>]

\* QThread.isRunning()
isRunning(wk) == wk.pc \in {"load", "compute"}

\* SimulationWorker.run, first half: loader.load_all_data(); a ValueError
\* ends the run with the error signal
WorkerLoaded(wk, f) ==
    LET out == load_all_data(f)
    IN IF out.raised
       THEN [wk EXCEPT !.pc = "done", !.emitted = Append(@, "error")]
       ELSE [wk EXCEPT !.pc = "compute", !.loaded = out.data]

\* SimulationWorker.run, second half: the engine is built from the loaded
\* data, the simulation runs, the report is added and finished is emitted
WorkerComputed(wk) ==
    [wk EXCEPT !.pc = "done", !.engine = wk.loaded,
               !.results = [of |-> wk.loaded, report |-> "report"],
               !.emitted = Append(@, "finished")]

\* on_simulation_finished(results)
on_simulation_finished(w, res) ==
    [w EXCEPT !.progress_bar = FALSE, !.simulate_btn = TRUE,
              !.results = res, !.results_text = res.report]

\* an error handler that hides the progress bar and leaves the button alone
on_simulation_error_Disabled(w) ==
    [w EXCEPT !.progress_bar = FALSE]

\* on_simulation_error(error_message)
on_simulation_error(w) ==
    [w EXCEPT !.progress_bar = FALSE, !.simulate_btn = TRUE]

\* clear_results
clear_results(w) == [w EXCEPT !.results_text = ""]

AppInit ==
    /\ fs \in AppFileSystems
    /\ LET started == auto_import_and_simulate(init_ui, fs)
       IN win = started.win /\ workers = started.workers
    /\ cycle = None
    /\ data = None /\ results = None /\ op = None /\ ret = None
    /\ tmpl = None /\ parsed = None /\ parsed2 = None
    /\ xls = None /\ loaded = None
    /\ reg = None /\ assigned = None

appFrame == <<cycle, engineVars, statusVars, schemaVars, sectionVars>>

\* the user replaces the files of the input directory
ChangeFiles ==
    /\ ~win.closed
    /\ fs' \in AppFileSystems \ {fs}
    /\ UNCHANGED <<win, workers, appFrame>>

\* a click on import_btn
ImportData ==
    /\ ~win.closed
    /\ win' = import_data(win, fs)
    /\ UNCHANGED <<fs, workers, appFrame>>

\* a click on simulate_btn, which is possible only while it is enabled
RunSimulation ==
    /\ ~win.closed
    /\ win.simulate_btn
    /\ Len(workers) < MaxWorkers
    /\ LET next == run_simulation(win, workers)
       IN win' = next.win /\ workers' = next.workers
    /\ UNCHANGED <<fs, appFrame>>

\* a click on clear_btn
ClearResults ==
    /\ ~win.closed
    /\ win' = clear_results(win)
    /\ UNCHANGED <<fs, workers, appFrame>>

\* a worker thread calls load_all_data
WorkerLoad ==
    \E i \in 1..Len(workers) :
        /\ workers[i].pc = "load"
        /\ workers' = [workers EXCEPT ![i] = WorkerLoaded(workers[i], fs)]
        /\ UNCHANGED <<fs, win, appFrame>>

\* a worker thread simulates and emits finished
WorkerCompute ==
    \E i \in 1..Len(workers) :
        /\ workers[i].pc = "compute"
        /\ workers' = [workers EXCEPT ![i] = WorkerComputed(workers[i])]
        /\ UNCHANGED <<fs, win, appFrame>>

\* the window's thread handles a queued finished signal
OnSimulationFinished ==
    \E i \in 1..Len(workers) :
        /\ ~win.closed
        /\ workers[i].handled < Len(workers[i].emitted)
        /\ workers[i].emitted[workers[i].handled + 1] = "finished"
        /\ win' = on_simulation_finished(win, workers[i].results)
        /\ workers' = [workers EXCEPT ![i].handled = @ + 1]
        /\ UNCHANGED <<fs, appFrame>>

\* the window's thread handles a queued error signal
OnSimulationError ==
    \E i \in 1..Len(workers) :
        /\ ~win.closed
        /\ workers[i].handled < Len(workers[i].emitted)
        /\ workers[i].emitted[workers[i].handled + 1] = "error"
        /\ win' = on_simulation_error(win)
        /\ workers' = [workers EXCEPT ![i].handled = @ + 1]
        /\ UNCHANGED <<fs, appFrame>>

\* closeEvent: self.simulation_worker, the worker started last, is
\* terminated if it is still running
CloseEvent ==
    /\ ~win.closed
    /\ win' = [win EXCEPT !.closed = TRUE]
    /\ workers' = IF workers # <<>> /\ isRunning(workers[Len(workers)])
                  THEN [workers EXCEPT ![Len(workers)].pc = "terminated"]
                  ELSE workers
    /\ UNCHANGED <<fs, appFrame>>

AppNext ==
    \/ ChangeFiles
    \/ ImportData
    \/ RunSimulation
    \/ ClearResults
    \/ WorkerLoad
    \/ WorkerCompute
    \/ OnSimulationFinished
    \/ OnSimulationError
    \/ CloseEvent

SpecApp == AppInit /\ [][AppNext]_vars

\* The window with its threads scheduled fairly: a worker thread that can
\* take its next step takes it, and the window's event loop delivers every
\* queued signal.  Nothing obliges the user to click.
SpecAppFair ==
    /\ SpecApp
    /\ WF_vars(WorkerLoad)
    /\ WF_vars(WorkerCompute)
    /\ WF_vars(OnSimulationFinished)
    /\ WF_vars(OnSimulationError)

----------------------------------------------------------------------------
(* Reports of long results: an engine over station tables of up to          *)
(* MaxReportStations rows, simulated and reported.                           *)

MaxReportStations == 12
MaxStopped == 2

\* station tables of n rows: row i has the id i, a name of its own and the
\* output i; the rows in stopped sit on the inactive point 2, the others on
\* the active point 1
ReportStationTable(n, stopped) ==
    [i \in 1..n |-> [id |-> I(i), name |-> S(<<"G">> \o NatStr(i)), value |-> I(i),
                     point |-> IF i \in stopped THEN I(2) ELSE I(1)]]

ReportStationTables ==
    UNION {{ReportStationTable(n, stopped) :
               stopped \in {x \in SUBSET (1..n) : Cardinality(x) <= MaxStopped}} :
           n \in 0..MaxReportStations}

\* no load, or an inactive load (30 on point 2) and an active one ("2.5" on 1)
ReportLoadTables ==
    {<<>>,
     <<[id |-> I(1), name |-> RowName("U", 1), value |-> I(30), point |-> I(2)],
       [id |-> I(2), name |-> RowName("U", 2), value |-> S(<<"2", ".", "5">>), point |-> I(1)]>>}

ReportData ==
    {[section_mapping |-> <<SectionRow(1, I(1), S1), SectionRow(2, I(2), S1)>>,
      stations |-> st, loads |-> ld,
      point_status |-> load_point_status(LongOf(<<Pair(I(1), I(1)), Pair(I(2), I(0))>>)).v,
      optional_rules |-> IF Len(ld) = 0 THEN <<"D">> ELSE <<>>] :
        st \in ReportStationTables, ld \in ReportLoadTables}

ReportInit ==
    /\ data \in ReportData
    /\ results = NoResults
    /\ op = "__init__"
    /\ ret = None
    /\ tmpl = None /\ parsed = None /\ parsed2 = None
    /\ xls = None /\ loaded = None
    /\ fs = None /\ cycle = None /\ win = None /\ workers = None
    /\ reg = None /\ assigned = None

ReportNext ==
    \/ RunFullSimulation
    \/ GetSummaryReport

SpecReport == ReportInit /\ [][ReportNext]_vars

----------------------------------------------------------------------------
(* Section assignment (load_data of src/data/data_loader.py).  reg holds    *)
(* the rows load_data reads: section rows (id cell, points cell), station   *)
(* and user rows (id cell, points cell) and the (point, code) pairs of the  *)
(* status table.  A points cell may list several points, separated by ';',  *)
(* ',' or a line break ("nl" stands for the line-break characters).         *)

Separators == {";", ",", "nl"}

RECURSIVE SplitOn(_, _)
\* s.split(';') after the separators were replaced by ';': the pieces of s,
\* where cur is the piece being read
SplitOn(s, cur) ==
    IF s = <<>> THEN <<cur>>
    ELSE IF Head(s) \in Separators THEN <<cur>> \o SplitOn(Tail(s), <<>>)
    ELSE SplitOn(Tail(s), Append(cur, Head(s)))

\* _split_points
_split_points(val) ==
    IF ~notna(val) THEN <<>>
    ELSE LET text == IF val.k \in {"int", "float"} THEN IntStr(IntOf(val).v) ELSE Str(val)
             pieces == SplitOn(text, <<>>)
             stripped == [i \in 1..Len(pieces) |-> Strip(pieces[i])]
         IN SelectSeq(stripped, LAMBDA piece : piece # <<>>)

\* the code point of a character of an id
CharCode(c) ==
    CASE c = " " -> 32
      [] IsDigitChar(c) -> 48 + DigitValue(c)
      [] c = "S" -> 83
      [] OTHER -> 128

RECURSIVE StrLess(_, _)
\* a < b for two Python strings: the order sorted() puts section ids in
StrLess(a, b) ==
    IF b = <<>> THEN FALSE
    ELSE IF a = <<>> THEN TRUE
    ELSE IF Head(a) # Head(b) THEN CharCode(Head(a)) < CharCode(Head(b))
    ELSE StrLess(Tail(a), Tail(b))

RECURSIVE sorted_Numeric(_)
\* an ordering of ids by their value as numbers (ids that are no numbers last)
sorted_Numeric(set) ==
    IF set = {} THEN <<>>
    ELSE LET Value(x) == IF \A i \in 1..Len(x) : IsDigitChar(x[i])
                         THEN DigitsValue(x) ELSE 1000
             least == CHOOSE x \in set :
                          \A y \in set \ {x} : Value(x) < Value(y)
                                               \/ (Value(x) = Value(y) /\ StrLess(x, y))
         IN <<least>> \o sorted_Numeric(set \ {least})

RECURSIVE sorted(_)
\* sorted(list(assigned))
sorted(set) ==
    IF set = {} THEN <<>>
    ELSE LET least == CHOOSE x \in set : \A y \in set \ {x} : StrLess(x, y)
         IN <<least>> \o sorted(set \ {least})

RECURSIVE point_to_sections(_, _)
\* point_to_sections after the first n section rows: for each point, the ids
\* of the rows that list it, in row order
point_to_sections(rows, n) ==
    IF n = 0 THEN <<>>
    ELSE LET before == point_to_sections(rows, n - 1)
             sec_id == Strip(Str(rows[n].id))
             pts == _split_points(rows[n].points)
             Add[k \in 0..Len(pts)] ==
                 IF k = 0 THEN before
                 ELSE DictSet(Add[k - 1], pts[k],
                              Append(DictGet(Add[k - 1], pts[k], <<>>), sec_id))
         IN Add[Len(pts)]

\* an assignment that takes the sections of every listed point, active or not
AssignedSections_AnyStatus(pts, active_points, p2s) ==
    UNION {SeqRange(DictGet(p2s, pts[i], <<>>)) :
              i \in {j \in 1..Len(pts) : DictHas(p2s, pts[j])}}

\* the set assigned of load_data: the sections of the active points of pts
AssignedSections(pts, active_points, p2s) ==
    UNION {SeqRange(DictGet(p2s, pts[i], <<>>)) :
              i \in {j \in 1..Len(pts) : pts[j] \in active_points /\ DictHas(p2s, pts[j])}}

\* s['section_ids'] = sorted(list(assigned))
StationSectionIds(pts, active_points, p2s) ==
    sorted(AssignedSections(pts, active_points, p2s))

\* u['section_id'] = sorted(list(assigned))[0] if assigned else None
UserSectionId(pts, active_points, p2s) ==
    LET assigned_set == AssignedSections(pts, active_points, p2s)
    IN IF assigned_set # {} THEN <<sorted(assigned_set)[1]>> ELSE <<>>

\* load_data from the tables on: the station and user entries with their
\* points and sections (section_id is <<>> for None, or <<id>>)
load_data(r) ==
    LET p2s == point_to_sections(r.sections, Len(r.sections))
        active_points == load_data_point_status(LongOf(r.template)).active_points
    IN [stations |-> [i \in 1..Len(r.stations) |->
                        LET pts == _split_points(r.stations[i].points)
                        IN [id |-> Strip(Str(r.stations[i].id)), points |-> pts,
                            section_ids |-> StationSectionIds(pts, active_points, p2s)]],
        users |-> [i \in 1..Len(r.users) |->
                     LET pts == _split_points(r.users[i].points)
                     IN [id |-> Strip(Str(r.users[i].id)), points |-> pts,
                         section_id |-> UserSectionId(pts, active_points, p2s)]]]

MaxSectionRows == 2

\* section ids 2, 10 and "S1"
SectionIdCells == {I(2), I(10), S(<<"S", "1">>)}

\* points cells: 1; "1;2"; "2, 3" with a line break at the end; a blank cell
PointsCells ==
    {I(1), S(<<"1", ";", "2">>), S(<<"2", ",", " ", "3", "nl">>), NaN}

\* status tables over the points 1, 2, 3: each active (1 or 在线) or not
RegTemplates ==
    {<<Pair(I(1), c1), Pair(I(2), c2), Pair(I(3), c3)>> :
        c1 \in {I(1), I(0)}, c2 \in {S(<<"zai", "xian">>), I(0)}, c3 \in {I(1), NaN}}

Registries ==
    [sections : SeqsUpTo([id : SectionIdCells, points : PointsCells], MaxSectionRows) \ {<<>>},
     stations : {<<[id |-> I(1), points |-> c]>> : c \in PointsCells},
     users : {<<[id |-> I(1), points |-> c]>> : c \in PointsCells},
     template : RegTemplates]

SectionsInit ==
    /\ reg \in Registries
    /\ assigned = None
    /\ fs = None /\ cycle = None /\ win = None /\ workers = None
    /\ data = None /\ results = None /\ op = None /\ ret = None
    /\ tmpl = None /\ parsed = None /\ parsed2 = None
    /\ xls = None /\ loaded = None

\* load_data maps the stations and users to sections
AssignSections ==
    /\ assigned = None
    /\ assigned' = load_data(reg)
    /\ UNCHANGED <<reg, engineVars, statusVars, schemaVars, loadVars, appVars>>

SectionsNext == AssignSections

SpecSections == SectionsInit /\ [][SectionsNext]_vars

----------------------------------------------------------------------------
(* Properties of the engine, checked under Spec *)

Simulated == op = "run_full_simulation"

\* the row an id resolves to: the first row of the table that carries it
ResolvedRow(table, i) ==
    table[CHOOSE j \in 1..Len(table) :
            /\ Str(table[j].id) = Str(table[i].id)
            /\ \A k \in 1..(j - 1) : Str(table[k].id) # Str(table[i].id)]

\* load_data's reading of an output / demand cell: float(cell), and 0.0 for
\* a blank cell or one float() rejects
ParsedValue(c) ==
    IF ~notna(c) THEN 0 ELSE IF FloatOf(c).raised THEN 0 ELSE FloatOf(c).v

\* a point is marked active in the status map: it is listed there with status 1
MarkedActive(ps, point_id) == \E i \in 1..Len(ps) : ps[i].key = point_id /\ ps[i].val = 1

Listed(ps, point_id) == \E i \in 1..Len(ps) : ps[i].key = point_id

RECURSIVE SumOver(_, _)
\* the sum of f[i] over the indices i of idx
SumOver(f, idx) ==
    IF idx = {} THEN 0
    ELSE LET i == CHOOSE j \in idx : TRUE IN f[i] + SumOver(f, idx \ {i})

AsParsed(table, recs) ==
    \A i \in 1..Len(recs) :
        /\ recs[i].status = "inactive" => recs[i].allocation = 0
        /\ recs[i].status = "active" =>
               recs[i].allocation = ParsedValue(ResolvedRow(table, i).value)

\* C1: in the records of a simulation, an inactive station or load has
\* allocation 0 and an active one has exactly the output / demand parsed from
\* its source cell, for every numeric cell, negative values included.
C1_AllocationAsParsed ==
    Simulated => /\ AsParsed(data.stations, results.stations)
                 /\ AsParsed(data.loads, results.loads)

StatusFollowsPoint(table, recs) ==
    \A i \in 1..Len(recs) :
        LET point_id == Str(ResolvedRow(table, i).point)
        IN /\ recs[i].status \in {"active", "inactive"}
           /\ recs[i].status = "active" <=> MarkedActive(data.point_status, point_id)
           /\ ~Listed(data.point_status, point_id) =>
                  recs[i].status = "inactive" /\ recs[i].allocation = 0

\* C2: the record of a station or load whose id resolves to a row is active
\* exactly when the row's point id is marked active in the status map; a point
\* id the map does not list gives inactive with allocation 0, never not_found.
\* A record asked for directly is not_found only when no row carries the id.
C2_StatusFollowsPoint ==
    /\ Simulated => /\ StatusFollowsPoint(data.stations, results.stations)
                    /\ StatusFollowsPoint(data.loads, results.loads)
    /\ op = "get_station_allocation" /\ ret.status = "not_found" =>
           ret.reason = <<"Station ", <<"0">>, " not found">>
    /\ op = "get_load_allocation" /\ ret.status = "not_found" =>
           ret.reason = <<"Load ", <<"0">>, " not found">>

\* a simulated station sits on a point the status map does not list and its
\* record is inactive with allocation 0, while a load on a listed point is active
C2_Witness ==
    /\ Simulated
    /\ \E i \in 1..Len(data.stations) :
           /\ data.stations[i].point = I(1)
           /\ ~Listed(data.point_status, <<"1">>)
           /\ results.stations[i].status = "inactive"
           /\ results.stations[i].allocation = 0
    /\ \E i \in 1..Len(data.loads) : results.loads[i].status = "active"

ActiveIdx(recs) == {i \in 1..Len(recs) : recs[i].status = "active"}

Allocations(recs) == [i \in 1..Len(recs) |-> recs[i].allocation]

\* C3: in every result, total_active_generation is the sum of allocation over
\* the active station records, total_active_load the sum over the active load
\* records, overall_balance their difference, and total_active_points the
\* number of points the status map marks active.
C3_GlobalTotals ==
    Simulated =>
        LET summary == results.summary
        IN /\ summary.total_active_generation =
                  SumOver(Allocations(results.stations), ActiveIdx(results.stations))
           /\ summary.total_active_load =
                  SumOver(Allocations(results.loads), ActiveIdx(results.loads))
           /\ summary.overall_balance =
                  summary.total_active_generation - summary.total_active_load
           /\ summary.total_active_points =
                  Cardinality({i \in 1..Len(data.point_status) : data.point_status[i].val = 1})

\* a result with two active stations and an active load, some points inactive
C3_Witness ==
    /\ Simulated
    /\ Cardinality(ActiveIdx(results.stations)) = 2
    /\ results.summary.total_active_generation > 0
    /\ results.summary.total_active_load > 0
    /\ results.summary.total_active_points < Len(data.point_status)

\* the points of a section: the points its rows of the section table name
SectionPointList(section_name) ==
    {Str(data.section_mapping[j].name) :
        j \in {k \in 1..Len(data.section_mapping) :
                 CellEq(data.section_mapping[k].point, section_name)}}

OnSection(table, recs, section_name) ==
    {i \in ActiveIdx(recs) : Str(table[i].point) \in SectionPointList(section_name)}

\* C4: for each section, total_generation is the sum of allocation over
\* exactly the active stations whose point is in the section's point list,
\* total_load the same sum over the active loads, balance their difference.
C4_SectionTotals ==
    Simulated =>
        \A k \in 1..Len(results.sections) :
            LET sec == results.sections[k]
            IN /\ sec.total_generation =
                      SumOver(Allocations(results.stations),
                              OnSection(data.stations, results.stations, sec.section_name))
               /\ sec.total_load =
                      SumOver(Allocations(results.loads),
                              OnSection(data.loads, results.loads, sec.section_name))
               /\ sec.balance = sec.total_generation - sec.total_load

\* C5: run_full_simulation is idempotent: a simulation run on an engine that
\* already holds the result of an earlier run (with any reports and queries in
\* between) returns a result identical to that earlier one.
C5_Idempotent ==
    [][(op' = "run_full_simulation" /\ results # NoResults) => ret' = results]_vars

\* a simulation has run and a report was made of it: the next run is a second one
C5_Witness ==
    /\ op = "get_summary_report"
    /\ results # NoResults
    /\ ret.active_stations > 0

\* C6: no operation of the engine changes the loaded tables or the status
\* map, and only run_full_simulation changes self.results.
C6_DataNeverWritten ==
    [][data' = data /\ (op' # "run_full_simulation" => results' = results)]_vars

\* a section was aggregated after a simulation had stored its results
C6_Witness ==
    /\ op = "calculate_section_allocation"
    /\ results # NoResults
    /\ ret.total_generation > 0

\* the canonical form of a point id: digits-and-dots ids in integer string form
CanonicalPoint(c) == IF LongPointId(c).raised THEN Strip(Str(c)) ELSE LongPointId(c).v

\* C9: point ids are compared in canonical form: a station or load is active
\* exactly when the canonical form of its point cell (7 for 7, 7.0 and "7")
\* is marked active in the status map.
C9_PointIdEquivalence ==
    Simulated =>
        /\ \A i \in 1..Len(results.stations) :
               results.stations[i].status = "active" <=>
                   MarkedActive(data.point_status,
                                CanonicalPoint(ResolvedRow(data.stations, i).point))
        /\ \A i \in 1..Len(results.loads) :
               results.loads[i].status = "active" <=>
                   MarkedActive(data.point_status,
                                CanonicalPoint(ResolvedRow(data.loads, i).point))

----------------------------------------------------------------------------
(* Properties of the activation-table parsers, checked under SpecStatus *)

\* a label both layouts read as a point: the wide layout takes a column for a
\* point only when its label is all digits
PointLabel(c) == isdigit(Str(c))

\* the points a status map marks active
ActiveSet(ps) == {ps[i].key : i \in {j \in 1..Len(ps) : ps[j].val = 1}}

\* C7: activation normalization is total: whatever the status codes of a
\* table, in either layout, parsing does not raise, and each point is active
\* exactly when its code normalizes to 1 or is one of the active tokens, and
\* inactive otherwise; for DataLoader.load_point_status and for load_data.
C7_ActivationTotal ==
    \A layout \in Layouts :
        /\ parsed[layout] # None =>
               /\ ~parsed[layout].raised
               /\ \A i \in 1..Len(tmpl) :
                      PointLabel(tmpl[i].point) =>
                          (Str(tmpl[i].point) \in ActiveSet(parsed[layout].v)
                              <=> _is_active(tmpl[i].code))
        /\ parsed2[layout] # None =>
               /\ ~parsed2[layout].raised
               /\ \A i \in 1..Len(tmpl) :
                      Strip(Str(tmpl[i].point)) \in parsed2[layout].active_points
                          <=> _is_active(tmpl[i].code)

\* C8: the two layouts are equivalent: a table of points-as-columns and the
\* two-column table listing the same (point, status code) pairs give the same
\* set of active points (header 1 with 在线 and header 2 with "0" included);
\* for DataLoader.load_point_status and for load_data.
C8_LayoutsEquivalent ==
    (\A i \in 1..Len(tmpl) : PointLabel(tmpl[i].point)) =>
        /\ (parsed["long"] # None /\ parsed["wide"] # None) =>
               /\ ~parsed["long"].raised /\ ~parsed["wide"].raised
               /\ ActiveSet(parsed["long"].v) = ActiveSet(parsed["wide"].v)
        /\ (parsed2["long"] # None /\ parsed2["wide"] # None) =>
               /\ ~parsed2["long"].raised /\ ~parsed2["wide"].raised
               /\ parsed2["long"].active_points = parsed2["wide"].active_points

\* C13: an activation table that matches neither layout (it has no 点位 /
\* 状态 column pair, and none of its column headers is a point id) makes the
\* load fail; it is never accepted, as an empty activation map or otherwise.
C13_UnrecognisedTableFails ==
    (\A i \in 1..Len(tmpl) : ~PointLabel(tmpl[i].point)) =>
        /\ parsed["wide"] # None => parsed["wide"].raised
        /\ parsed2["wide"] # None => parsed2["wide"].raised

----------------------------------------------------------------------------
(* Properties of schema resolution, checked under SpecSchema *)

\* the canonical fields of the file's kind that none of the file's columns gives
Unresolved ==
    {f \in SeqRange(required_files(xls.kind)) :
        AcceptedColumns(xls.kind, f) \cap xls.columns = {}}

\* C10: schema resolution is all-or-nothing: a file in which some canonical
\* field has none of its accepted columns fails to load, with an error that
\* names every such field and lists the file's columns (under their own or
\* their canonical names); a table that loads has every canonical field, none
\* of them filled in by default.
C10_AllOrNothing ==
    loaded # None =>
        /\ Unresolved # {} =>
               /\ loaded.raised
               /\ Unresolved \subseteq SeqRange(loaded.missing)
               /\ \A c \in xls.columns :
                      \/ c \in loaded.available
                      \/ \E f \in loaded.available : c \in AcceptedColumns(xls.kind, f)
        /\ ~loaded.raised =>
               /\ SeqRange(required_files(xls.kind)) \subseteq loaded.columns
               /\ loaded.defaulted = {}

----------------------------------------------------------------------------
(* Properties of a load cycle, checked under SpecLoad *)

Absent == {filename \in SeqRange(RequiredFileNames) : fs.required[filename] = "absent"}

\* C11: when any of the four required files is absent, load_all_data raises
\* a ValueError that names every absent file, and it has opened no file.
C11_MissingFilesNamed ==
    (cycle # None /\ Absent # {}) =>
        /\ cycle.raised
        /\ cycle.error = "Missing required files"
        /\ SeqRange(cycle.missing) = Absent
        /\ cycle.reads = <<>>

\* two files are absent, a third is there but does not load
C11_Witness ==
    /\ cycle # None
    /\ Cardinality(Absent) = 2
    /\ \E filename \in SeqRange(RequiredFileNames) : fs.required[filename] = "bad"
    /\ cycle.raised

\* C12: optional rule files never make a load cycle fail: a cycle fails only
\* for a required file that is absent or does not load, and the rule set of
\* a cycle that succeeds holds exactly the optional files that exist and parsed.
C12_OptionalNeverFatal ==
    cycle # None =>
        /\ cycle.raised <=>
               \E filename \in SeqRange(RequiredFileNames) : fs.required[filename] # "ok"
        /\ ~cycle.raised =>
               /\ SeqRange(cycle.data.optional_rules) =
                      {filename \in DOMAIN fs.optional : fs.optional[filename] = "ok"}
               /\ Len(cycle.data.optional_rules) =
                      Cardinality(SeqRange(cycle.data.optional_rules))

\* a cycle succeeded with one optional file corrupt and another loaded
C12_Witness ==
    /\ cycle # None
    /\ ~cycle.raised
    /\ \E filename \in DOMAIN fs.optional : fs.optional[filename] = "corrupt"
    /\ Len(cycle.data.optional_rules) = 1

----------------------------------------------------------------------------
(* Properties of the window and its workers, checked under SpecApp *)

\* the keys of the data set load_all_data returns
DataKeys == {"section_mapping", "stations", "loads", "point_status", "optional_rules"}

Complete(d) == DOMAIN d = DataKeys

\* C14: a load cycle completes or fails atomically: the data the window
\* holds and the data a worker loaded have all five tables; a worker whose
\* load failed emits error and builds no engine; an engine is only ever built
\* from, and a simulation only run on, a complete data set.
C14_LoadAtomic ==
    /\ win.data # None => Complete(win.data)
    /\ \A i \in 1..Len(workers) :
           LET wk == workers[i]
           IN /\ wk.loaded # None => Complete(wk.loaded)
              /\ wk.engine # None => Complete(wk.engine) /\ wk.engine = wk.loaded
              /\ wk.results # None => wk.engine # None /\ wk.results.of = wk.engine
              /\ (wk.pc = "done" /\ wk.loaded = None) =>
                     wk.emitted = <<"error">> /\ wk.engine = None /\ wk.results = None

\* one worker failed to load and built no engine, another ran on its data,
\* and the window still holds the data it imported
C14_Witness ==
    /\ win.data # None
    /\ \E i, j \in 1..Len(workers) :
           /\ workers[i].emitted = <<"error">> /\ workers[i].engine = None
           /\ workers[j].engine # None /\ workers[j].emitted = <<"finished">>

\* C15: load/compute cycles never overlap: at most one worker is running
\* (started, with neither finished nor error emitted yet) at any time.
C15_NoOverlap ==
    Cardinality({i \in 1..Len(workers) : isRunning(workers[i])}) <= 1

\* C16: every worker cycle ends with exactly one outcome: a worker that is
\* no longer running has emitted finished or error, one of them and once;
\* none ends without an outcome, also when the window is closed meanwhile.
C16_OneOutcome ==
    \A i \in 1..Len(workers) :
        ~isRunning(workers[i]) =>
            /\ Len(workers[i].emitted) = 1
            /\ workers[i].emitted[1] \in {"finished", "error"}


----------------------------------------------------------------------------
(* Properties of the section assignment, checked under SpecSections *)

\* the points the status table marks active
ActiveRegPoints(r) ==
    LET status == load_data_point_status(LongOf(r.template)).v
    IN {status[i].key : i \in {j \in 1..Len(status) : _is_active(status[j].val)}}

\* the ids of the section rows that list at least one active point of pts
ReachableSections(r, pts) ==
    {Strip(Str(r.sections[n].id)) :
        n \in {m \in 1..Len(r.sections) :
                 \E p \in SeqRange(pts) \cap ActiveRegPoints(r) :
                     p \in SeqRange(_split_points(r.sections[m].points))}}

C18_LoadSmallestSection ==
    assigned # None =>
        \A i \in 1..Len(assigned.users) :
            LET u == assigned.users[i]
                reach == ReachableSections(reg, _split_points(reg.users[i].points))
            IN IF reach = {} THEN u.section_id = <<>>
               ELSE /\ Len(u.section_id) = 1
                    /\ u.section_id[1] \in reach
                    /\ \A x \in reach \ {u.section_id[1]} : StrLess(u.section_id[1], x)

\* a load that reaches the sections "10" and "2" and is given "10", which is
\* the smaller string and the larger number
C18_Witness ==
    /\ assigned # None
    /\ ReachableSections(reg, assigned.users[1].points) = {<<"1", "0">>, <<"2">>}
    /\ assigned.users[1].section_id = <<<<"1", "0">>>>


----------------------------------------------------------------------------
(* Rows and records, checked under Spec *)

\* the record of a row looked at alone: what its own name, point and value give
OwnStationRecord(d, row) ==
    get_station_allocation([d EXCEPT !.stations = <<row>>], Str(row.id))

OwnLoadRecord(d, row) ==
    get_load_allocation([d EXCEPT !.loads = <<row>>], Str(row.id))

\* C19: the stations and loads of a result hold exactly one record per source
\* row, in row order, and the i-th record describes the i-th row's own name,
\* point and value, also when two rows carry the same id.
C19_OneRecordPerRow ==
    Simulated =>
        /\ Len(results.stations) = Len(data.stations)
        /\ Len(results.loads) = Len(data.loads)
        /\ \A i \in 1..Len(results.stations) :
               results.stations[i] = OwnStationRecord(data, data.stations[i])
        /\ \A i \in 1..Len(results.loads) :
               results.loads[i] = OwnLoadRecord(data, data.loads[i])


----------------------------------------------------------------------------
(* Properties of the report, checked under SpecReport *)

Reported == op = "get_summary_report" /\ results # NoResults

\* the positions of the records of a status, and the k-th of them
WithStatus(recs, status) == {i \in 1..Len(recs) : recs[i].status = status}

KthActive(recs, k) ==
    CHOOSE i \in WithStatus(recs, "active") :
        Cardinality({j \in WithStatus(recs, "active") : j <= i}) = k

Least(a, b) == IF a < b THEN a ELSE b

\* C20: the report lists the active stations in the order of the result and
\* shows the first 10 of them at most; with N > 10 active stations it adds a
\* tail line counting N - 10 more, and no tail line otherwise; the station and
\* load counts are the numbers of active and inactive records of the result,
\* and the totals are those the result holds.
C20_ReportPreview ==
    Reported =>
        LET N == Cardinality(WithStatus(results.stations, "active"))
        IN /\ Len(ret.details) = Least(N, 10)
           /\ \A k \in 1..Len(ret.details) :
                  LET s == results.stations[KthActive(results.stations, k)]
                  IN ret.details[k] = <<s.station_name, s.allocation, s.point_id>>
           /\ ret.more = IF N > 10 THEN <<N - 10>> ELSE <<>>
           /\ ret.active_stations = N
           /\ ret.inactive_stations = Cardinality(WithStatus(results.stations, "inactive"))
           /\ ret.active_loads = Cardinality(WithStatus(results.loads, "active"))
           /\ ret.inactive_loads = Cardinality(WithStatus(results.loads, "inactive"))
           /\ ret.total_active_generation = results.summary.total_active_generation
           /\ ret.total_active_load = results.summary.total_active_load
           /\ ret.overall_balance = results.summary.overall_balance
           /\ ret.total_active_points = results.summary.total_active_points

\* a report of twelve stations, eleven of them active and a stopped one
\* among the first ten: ten lines and a tail line of one more
C20_Witness ==
    /\ Reported
    /\ Len(results.stations) = 12
    /\ WithStatus(results.stations, "inactive") = {3}
    /\ Len(ret.details) = 10
    /\ ret.details[3][1] = S(<<"G", "4">>)
    /\ ret.more = <<1>>


----------------------------------------------------------------------------
(* Contributors of a section, checked under Spec *)

\* how often a tag stands in a section's contributor list
TagCount(tags, tag) == Cardinality({i \in 1..Len(tags) : tags[i] = tag})

\* the rows of a table that carry an id: the entities a tag can stand for
RowsCarrying(table, id) == Cardinality({i \in 1..Len(table) : Str(table[i].id) = id})

\* C21: in the aggregate of a section every active station and every active
\* load is counted at most once: a tag stands in the contributor list no more
\* often than there are rows carrying its id, and the section's totals do not
\* exceed the totals over all active stations and loads, also when several
\* rows of the section name the same point.
C21_CountedOnce ==
    Simulated =>
        \A k \in 1..Len(results.sections) :
            LET sec == results.sections[k]
            IN /\ \A i \in 1..Len(sec.active_points) :
                      LET tag == sec.active_points[i]
                      IN TagCount(sec.active_points, tag) <=
                             RowsCarrying(IF tag[1] = "Station" THEN data.stations
                                          ELSE data.loads, tag[2])
               /\ sec.total_generation <= results.summary.total_active_generation
               /\ sec.total_load <= results.summary.total_active_load


----------------------------------------------------------------------------
(* Properties of the window's button and data, checked under SpecApp *)

\* C22: the run-simulation button is enabled only while self.data is set, and
\* run_simulation called with no data imported starts no worker and leaves the
\* button and the progress bar as they were.
C22_ButtonNeedsData ==
    /\ win.simulate_btn => win.data # None
    /\ win.data = None =>
           /\ run_simulation(win, workers).workers = workers
           /\ run_simulation(win, workers).win = win

\* a window without data, its button disabled, over a directory whose loads
\* file does not load: imports there fail
C22_Witness ==
    /\ win.data = None
    /\ ~win.simulate_btn
    /\ ~win.closed
    /\ fs.required[RequiredFileNames[3]] = "bad"

\* C24: an import that fails (a missing file, a table that does not validate,
\* any other load error) leaves self.data as it was before the call, none or
\* the data set imported earlier, stores no partial data set and hides the
\* progress bar again.
C24_FailedImportKeepsData ==
    [][(ImportData /\ load_all_data(fs).raised) =>
           /\ win'.data = win.data
           /\ win'.data # None => Complete(win'.data)
           /\ ~win'.progress_bar]_vars

\* a failed import during a run: the data set imported earlier is still
\* there, the progress bar is hidden and the button is still disabled
C24_Witness ==
    /\ win.data # None
    /\ load_all_data(fs).raised
    /\ ~win.progress_bar
    /\ ~win.simulate_btn
    /\ ~win.closed
    /\ \E i \in 1..Len(workers) : isRunning(workers[i])

\* the state run_simulation leaves behind: a worker runs, the button is
\* disabled and the progress bar shows
RunStarted ==
    /\ ~win.closed
    /\ ~win.simulate_btn
    /\ win.progress_bar
    /\ \E i \in 1..Len(workers) : isRunning(workers[i])

\* C23: once run_simulation has started a worker, and as long as the threads
\* are scheduled fairly and the window is not closed, the worker finishes or
\* errors and the button is enabled again with the progress bar hidden; the
\* button does not stay disabled forever.
C23_ButtonReenabled ==
    RunStarted ~> (win.closed \/ (win.simulate_btn /\ ~win.progress_bar))

\* a run that ended: every worker has emitted its signal, the window has
\* handled it, the button is enabled and the progress bar hidden
C23_Witness ==
    /\ ~win.closed
    /\ workers # <<>>
    /\ \A i \in 1..Len(workers) :
           /\ ~isRunning(workers[i])
           /\ Len(workers[i].emitted) = 1
           /\ workers[i].handled = 1
    /\ win.simulate_btn
    /\ ~win.progress_bar

====
